---------------------------- MODULE Spec2Model ----------------------------
(***************************************************************************)
(* The "Knots Go Up" dashboard (App component): two data pipelines started  *)
(* by one mount effect, fetchData (latest snapshot, 21 minute cache) and    *)
(* fetchHistoricalData (paginated backfill, 24 hour cache), the aggregator  *)
(* processNodeData and the derived table sortedVersions.                    *)
(*                                                                         *)
(* JavaScript values are modelled as follows.                               *)
(*   - a string is a sequence of one-character strings;                     *)
(*   - null / a missing localStorage key is <<>>, a present value v is <<v>>*)
(*   - a plain object ({}) is the sequence of its own [key, value] entries  *)
(*     in own-property order (integer-like keys first, ascending, then the  *)
(*     other keys in creation order);                                       *)
(*   - a value that is not a number (the string that `+ 1` produces from a  *)
(*     non-number) is NotANumber.                                           *)
(***************************************************************************)
EXTENDS Integers, Sequences, FiniteSets, TLC

(***************************** program constants ***************************)
CACHE_DURATION_fetchData == 21 * 60 * 1000
CACHE_DURATION_fetchHistoricalData == 24 * 60 * 60 * 1000
ONE_WEEK_MS == 7 * 24 * 60 * 60 * 1000
MAX_API_CALLS == 12
SliceEnd == 21

(********************************* bounds **********************************)
\* first clock value (milliseconds)
Epoch == 1000
\* mounts (page loads) in one behaviour of the application
MaxMounts == 2
\* listing pages the upstream serves before `next` must be null (application)
AppMaxPages == 2
\* summaries the upstream listing holds in all (application)
AppSummaries == 1
\* listing pages the upstream can serve in a backfill-only behaviour
MaxChain == 13
\* summaries the upstream listing holds in all (backfill-only behaviour)
MaxSummaries == 3
\* summaries on one listing page
MaxPerPage == 2
\* repeated node records added to an aggregator input
MaxExtra == 2

(******************************** strings **********************************)
Min(a, b) == IF a < b THEN a ELSE b

Abs(x) == IF x < 0 THEN -x ELSE x

DigitChars == <<"0", "1", "2", "3", "4", "5", "6", "7", "8", "9">>

IsDigit(c) == \E d \in 1..10 : DigitChars[d] = c

DigitVal(c) == (CHOOSE d \in 1..10 : DigitChars[d] = c) - 1

\* Number.prototype.toString() of a non-negative integer
RECURSIVE toString(_)
toString(n) ==
  IF n < 10 THEN <<DigitChars[n + 1]>>
  ELSE toString(n \div 10) \o <<DigitChars[(n % 10) + 1]>>

\* a result that is not a number (NaN, or a string produced by `+`)
NotANumber == -1

\* parseInt(s): the value of the leading run of decimal digits, NaN if none
RECURSIVE ParseDigits(_, _)
ParseDigits(s, acc) ==
  IF s = <<>> \/ ~IsDigit(Head(s)) THEN acc
  ELSE ParseDigits(Tail(s), acc * 10 + DigitVal(Head(s)))

parseInt(s) ==
  IF s = <<>> \/ ~IsDigit(Head(s)) THEN NotANumber ELSE ParseDigits(s, 0)

\* String.prototype.includes
Includes(s, sub) ==
  \E i \in 0..(Len(s) - Len(sub)) : SubSeq(s, i + 1, i + Len(sub)) = sub

\* String.prototype.replace(pattern: string, ''): the first occurrence, anywhere
ReplaceFirst(s, pat) ==
  IF ~Includes(s, pat) THEN s
  ELSE LET i == CHOOSE k \in 0..(Len(s) - Len(pat)) :
                  /\ SubSeq(s, k + 1, k + Len(pat)) = pat
                  /\ \A j \in 0..(k - 1) : SubSeq(s, j + 1, j + Len(pat)) # pat
       IN  SubSeq(s, 1, i) \o SubSeq(s, i + Len(pat) + 1, Len(s))

\* String.prototype.replace(/\/$/, ''): one slash at the end of the string
StripTrailingSlash(s) ==
  IF Len(s) > 0 /\ s[Len(s)] = "/" THEN SubSeq(s, 1, Len(s) - 1) ELSE s

KnotsToken == <<"K", "n", "o", "t", "s">>
SatoshiPrefix == <<"/", "S", "a", "t", "o", "s", "h", "i", ":">>

(************************* version strings (inputs) ************************)
CoreV == SatoshiPrefix \o <<"2", "7", "/">>
KnotsV == SatoshiPrefix \o <<"2", "7", "/">> \o KnotsToken \o <<":", "1", "/">>
PlainKnotsV == <<"/">> \o KnotsToken \o <<":", "2", "0", ".", "1", "/">>
\* a user agent that is an integer-like string
IndexV == <<"7">>
\* a user agent that names a property of Object.prototype
ProtoV == <<"c", "o", "n", "s", "t", "r", "u", "c", "t", "o", "r">>
\* "/Satoshi:24.0.1/"
SatoshiV == SatoshiPrefix \o <<"2", "4", ".", "0", ".", "1", "/">>
\* a user agent in which '/Satoshi:' is not at the start: "/Knots:1/Satoshi:27/"
NestedV == <<"/">> \o KnotsToken \o <<":", "1">> \o SatoshiPrefix \o <<"2", "7", "/">>

(**************************** plain JS objects *****************************)
\* property names every object literal inherits from Object.prototype
ObjectPrototypeKeys == {ProtoV}

\* an array index: a canonical decimal string below 2^32 - 1 (here: of at most
\* nine digits, which all are)
IsArrayIndex(key) ==
  /\ Len(key) \in 1..9
  /\ \A i \in 1..Len(key) : IsDigit(key[i])
  /\ (Len(key) > 1 => key[1] # "0")

HasOwn(obj, key) == \E i \in 1..Len(obj) : obj[i].key = key

OwnIndex(obj, key) == CHOOSE i \in 1..Len(obj) : obj[i].key = key

\* position at which a new own property `key` is enumerated
InsertAt(obj, key) ==
  IF IsArrayIndex(key)
  THEN 1 + Cardinality({i \in 1..Len(obj) :
                          /\ IsArrayIndex(obj[i].key)
                          /\ ParseDigits(obj[i].key, 0) < ParseDigits(key, 0)})
  ELSE Len(obj) + 1

\* obj[key] = value
SetProp(obj, key, value) ==
  IF HasOwn(obj, key)
  THEN [obj EXCEPT ![OwnIndex(obj, key)].value = value]
  ELSE LET p == InsertAt(obj, key)
       IN  SubSeq(obj, 1, p - 1) \o <<[key |-> key, value |-> value]>>
             \o SubSeq(obj, p, Len(obj))

\* (counts[version] || 0) + 1
BumpCount(counts, version) ==
  IF HasOwn(counts, version)
  THEN LET v == counts[OwnIndex(counts, version)].value
       IN  IF v = NotANumber THEN NotANumber ELSE v + 1
  ELSE IF version \in ObjectPrototypeKeys THEN NotANumber
  ELSE 1

(******************************* aggregator ********************************)
\* processNodeData: one pass over Object.values(data.nodes); node[1] is the
\* version string, so a node record is modelled by its version string
RECURSIVE processNodeData(_, _)
processNodeData(nodes, acc) ==
  IF nodes = <<>> THEN acc
  ELSE LET version == Head(nodes)
           isKnots == Includes(version, KnotsToken)
       IN  processNodeData(Tail(nodes),
             [counts |-> SetProp(acc.counts, version, BumpCount(acc.counts, version)),
              knots  |-> IF isKnots THEN acc.knots + 1 ELSE acc.knots,
              others |-> IF isKnots THEN acc.others ELSE acc.others + 1])

ProcessStart == [counts |-> <<>>, knots |-> 0, others |-> 0]

\* the comparator ([, a], [, b]) => b - a; a NaN result is taken as +0
CompareCounts(a, b) ==
  IF a.value = NotANumber \/ b.value = NotANumber THEN 0 ELSE b.value - a.value

\* Array.prototype.sort is stable: an element is inserted after every element
\* the comparator does not order after it
RECURSIVE InsertByCount(_, _)
InsertByCount(sorted, e) ==
  IF sorted = <<>> THEN <<e>>
  ELSE IF CompareCounts(Head(sorted), e) <= 0
       THEN <<Head(sorted)>> \o InsertByCount(Tail(sorted), e)
       ELSE <<e>> \o sorted

RECURSIVE SortByCount(_)
SortByCount(s) ==
  IF s = <<>> THEN <<>>
  ELSE InsertByCount(SortByCount(SubSeq(s, 1, Len(s) - 1)), s[Len(s)])

\* Object.entries(versionCounts).sort(...).slice(0, 21)
TopEntries(counts) ==
  LET sorted == SortByCount(counts)
  IN  SubSeq(sorted, 1, Min(SliceEnd, Len(sorted)))

\* version.replace('/Satoshi:', '').replace(/\/$/, '')
DisplayName(version) == StripTrailingSlash(ReplaceFirst(version, SatoshiPrefix))

\* sortedVersions: the rows of the table
SortedVersionsOf(counts) ==
  LET top == TopEntries(counts)
  IN  [i \in 1..Len(top) |-> <<DisplayName(top[i].key), top[i].value>>]


(****************************** JSON and cache *****************************)
\* JSON.stringify / JSON.parse of an ApiResponse: numbers become decimal text
StringifySnapshot(d) ==
  [timestamp     |-> toString(d.timestamp),
   total_nodes   |-> toString(d.total_nodes),
   latest_height |-> toString(d.latest_height),
   nodes         |-> d.nodes]

ParseSnapshot(text) ==
  [timestamp     |-> ParseDigits(text.timestamp, 0),
   total_nodes   |-> ParseDigits(text.total_nodes, 0),
   latest_height |-> ParseDigits(text.latest_height, 0),
   nodes         |-> text.nodes]

\* JSON.stringify / JSON.parse of the array of { timestamp, knotsCount }
StringifyPoints(points) ==
  [i \in 1..Len(points) |->
     <<toString(points[i].timestamp), toString(points[i].knotsCount)>>]

ParsePoints(text) ==
  [i \in 1..Len(text) |->
     [timestamp  |-> ParseDigits(text[i][1], 0),
      knotsCount |-> ParseDigits(text[i][2], 0)]]

\* variant: the age test inverted (>)
CacheFresh_Inverted(cachedData, cachedTimestamp, currentTime, duration) ==
  /\ cachedData # <<>>
  /\ cachedTimestamp # <<>>
  /\ parseInt(cachedTimestamp[1]) # NotANumber
  /\ currentTime - parseInt(cachedTimestamp[1]) > duration

\* variant: the age test inclusive (<=)
CacheFresh_Inclusive(cachedData, cachedTimestamp, currentTime, duration) ==
  /\ cachedData # <<>>
  /\ cachedTimestamp # <<>>
  /\ parseInt(cachedTimestamp[1]) # NotANumber
  /\ currentTime - parseInt(cachedTimestamp[1]) <= duration

\* cachedData && cachedTimestamp &&
\*   (currentTime - parseInt(cachedTimestamp)) < CACHE_DURATION
CacheFresh(cachedData, cachedTimestamp, currentTime, duration) ==
  /\ cachedData # <<>>
  /\ cachedTimestamp # <<>>
  /\ parseInt(cachedTimestamp[1]) # NotANumber
  /\ currentTime - parseInt(cachedTimestamp[1]) < duration

(********************************* backfill ********************************)
\* !lastTimestamp: null and 0 are both falsy
Falsy(lastTs) == lastTs = <<>> \/ lastTs[1] = 0

\* variant: the threshold is one day
KeepSnapshot_Day(snapshot, lastTs) ==
  \/ Falsy(lastTs)
  \/ Abs(snapshot.timestamp - lastTs[1]) >= (ONE_WEEK_MS \div 1000) \div 7

\* the callback of snapshots.filter(...)
KeepSnapshot(snapshot, lastTs) ==
  \/ Falsy(lastTs)
  \/ Abs(snapshot.timestamp - lastTs[1]) >= ONE_WEEK_MS \div 1000

\* snapshots.filter(...) with the captured variable lastTimestamp
RECURSIVE FilterSnapshots(_, _, _)
FilterSnapshots(snapshots, lastTs, kept) ==
  IF snapshots = <<>> THEN [filtered |-> kept, lastTimestamp |-> lastTs]
  ELSE IF KeepSnapshot(Head(snapshots), lastTs)
       THEN FilterSnapshots(Tail(snapshots), <<Head(snapshots).timestamp>>,
                            Append(kept, Head(snapshots)))
       ELSE FilterSnapshots(Tail(snapshots), lastTs, kept)

\* the forEach over Object.values(snapshotResponse.data.nodes)
RECURSIVE CountKnots(_)
CountKnots(nodes) ==
  IF nodes = <<>> THEN 0
  ELSE (IF Includes(Head(nodes), KnotsToken) THEN 1 ELSE 0) + CountKnots(Tail(nodes))

\* variant: the cap tested with <=
LoopContinues_OffByOne(url, calls) == url # <<>> /\ calls <= MAX_API_CALLS

\* while (nextUrl && apiCallCount < MAX_API_CALLS)
LoopContinues(url, calls) == url # <<>> /\ calls < MAX_API_CALLS

\* variant: the comparator reversed (b.timestamp - a.timestamp)
RECURSIVE InsertByTimestamp_Desc(_, _)
InsertByTimestamp_Desc(sorted, e) ==
  IF sorted = <<>> THEN <<e>>
  ELSE IF e.timestamp - Head(sorted).timestamp <= 0
       THEN <<Head(sorted)>> \o InsertByTimestamp_Desc(Tail(sorted), e)
       ELSE <<e>> \o sorted

\* historicalData.sort((a, b) => a.timestamp - b.timestamp), a stable sort
RECURSIVE InsertByTimestamp(_, _)
InsertByTimestamp(sorted, e) ==
  IF sorted = <<>> THEN <<e>>
  ELSE IF Head(sorted).timestamp - e.timestamp <= 0
       THEN <<Head(sorted)>> \o InsertByTimestamp(Tail(sorted), e)
       ELSE <<e>> \o sorted

RECURSIVE SortByTimestamp(_)
SortByTimestamp(s) ==
  IF s = <<>> THEN <<>>
  ELSE InsertByTimestamp(SortByTimestamp(SubSeq(s, 1, Len(s) - 1)), s[Len(s)])

(********************************* inputs **********************************)
\* snapshot timestamps (unix seconds) the upstream may report
TimestampSet == {0, 86400, 604800, 1209600}

\* the timestamps of the short listing the application runs against
AppTimestampSet == {0, 604800}

Snapshot(ts, nodes) ==
  [timestamp |-> ts, total_nodes |-> Len(nodes), latest_height |-> 900000,
   nodes |-> nodes]

\* bodies of GET snapshots/latest/
LatestSet == {Snapshot(1209600, <<>>), Snapshot(1209600, <<CoreV>>),
              Snapshot(1209600, <<KnotsV, CoreV, CoreV>>)}

\* node listings of GET {snapshot.url}
DetailSet == {<<CoreV>>, <<KnotsV, CoreV>>}

\* clock readings (Date.now(), milliseconds)
ClockSet == {Epoch,
             Epoch + CACHE_DURATION_fetchData - 1,
             Epoch + CACHE_DURATION_fetchData,
             Epoch + CACHE_DURATION_fetchHistoricalData - 1,
             Epoch + CACHE_DURATION_fetchHistoricalData}

(********************************** state **********************************)
VARIABLES
  now,                  \* Date.now()
  localStorage,         \* the four keys the component uses
  \* React state of App
  nodeData, versionCounts, knotsCount, otherCount, totalNodes, isLoading,
  historicalData, isLoadingHistorical,
  \* fetchData: position and locals
  pcD, currentTimeD, parsedData,
  \* fetchHistoricalData: position and locals
  pcH, currentTimeH, hd, nextUrl, lastTimestamp, apiCallCount, response, queue,
  \* the upstream listing
  upstream,             \* [maxPages, summaries, timestamps]: the listing
  remaining,            \* summaries not served yet
  served,               \* listing pages served to this run
  nullAt,               \* the page that was served with next = null, 0 if none
  listing,              \* timestamps of the summaries served, in order
  \* history of the runs
  mountsLeft, netD, netH, outcomeD, outcomeH, cacheAtStart, pushed,
  storedD, storedH,     \* the value and the time last written to each cache
  \* a snapshot's node listing being assembled, for processNodeData alone:
  \* [nodes, baseLen, extras, closed, processed]
  agg

reactD == <<nodeData, versionCounts, knotsCount, otherCount, totalNodes, isLoading>>
reactH == <<historicalData, isLoadingHistorical>>
localsD == <<pcD, currentTimeD, parsedData>>
localsH == <<pcH, currentTimeH, hd, nextUrl, lastTimestamp, apiCallCount, response, queue>>
envH == <<remaining, served, nullAt, listing>>
histD == <<netD, outcomeD, storedD>>
histH == <<netH, outcomeH, cacheAtStart, pushed, storedH>>
aggIn == <<agg>>

vars == <<now, localStorage, reactD, reactH, localsD, localsH, upstream, envH,
          mountsLeft, histD, histH, aggIn>>

\* useState initial values, and both async functions not yet called
InitComponent ==
  /\ nodeData = <<>>
  /\ versionCounts = <<>>
  /\ knotsCount = 0
  /\ otherCount = 0
  /\ totalNodes = 0
  /\ isLoading = TRUE
  /\ historicalData = <<>>
  /\ isLoadingHistorical = TRUE
  /\ pcD = "idle" /\ currentTimeD = 0 /\ parsedData = <<>>
  /\ pcH = "idle" /\ currentTimeH = 0 /\ hd = <<>> /\ nextUrl = <<>>
  /\ lastTimestamp = <<>> /\ apiCallCount = 0 /\ response = <<>> /\ queue = <<>>
  /\ served = 0 /\ nullAt = 0 /\ listing = <<>>
  /\ netD = 0 /\ netH = 0 /\ outcomeD = "none" /\ outcomeH = "none"
  /\ pushed = <<>>
  /\ storedD = <<>> /\ storedH = <<>>

EmptyAgg ==
  [nodes |-> <<>>, baseLen |-> 0, extras |-> 0, closed |-> FALSE,
   processed |-> FALSE]

EmptyStorage ==
  [nodeData |-> <<>>, nodeDataTimestamp |-> <<>>,
   knotsgoup_snapshots |-> <<>>, knotsgoup_snapshots_timestamp |-> <<>>]

HistCacheOf(ls) ==
  <<ls.knotsgoup_snapshots, ls.knotsgoup_snapshots_timestamp>>

\* the application: an empty localStorage, the component constructed
Init ==
  /\ InitComponent
  /\ now = Epoch
  /\ localStorage = EmptyStorage
  /\ upstream = [maxPages |-> AppMaxPages, summaries |-> AppSummaries,
                 timestamps |-> AppTimestampSet]
  /\ remaining = AppSummaries
  /\ mountsLeft = MaxMounts
  /\ cacheAtStart = HistCacheOf(EmptyStorage)
  /\ agg = EmptyAgg

(******************************** fetchData ********************************)
\* processNodeData(data): setVersionCounts, setKnotsCount, setOtherCount
ProcessNodeDataInto(data) ==
  LET r == processNodeData(data.nodes, ProcessStart)
  IN  /\ versionCounts' = r.counts
      /\ knotsCount' = r.knots
      /\ otherCount' = r.others

\* fetchData up to its first await
FetchDataBegin ==
  LET cachedData == localStorage.nodeData
      cachedTimestamp == localStorage.nodeDataTimestamp
      currentTime == now
  IN  /\ currentTimeD' = currentTime
      /\ outcomeD' = "none"
      /\ UNCHANGED storedD
      /\ IF CacheFresh(cachedData, cachedTimestamp, currentTime,
                       CACHE_DURATION_fetchData)
         THEN /\ parsedData' = <<ParseSnapshot(cachedData[1])>>
              /\ pcD' = "cacheDelay"
              /\ netD' = 0
         ELSE /\ parsedData' = <<>>
              /\ pcD' = "awaitLatest"
              /\ netD' = 1

\* variant: the cached path renews the entry's timestamp when it is used
CacheDelayDone_Touch ==
  /\ pcD = "cacheDelay"
  /\ nodeData' = parsedData
  /\ totalNodes' = parsedData[1].total_nodes
  /\ ProcessNodeDataInto(parsedData[1])
  /\ isLoading' = FALSE
  /\ pcD' = "done"
  /\ outcomeD' = "cache"
  /\ localStorage' =
       [localStorage EXCEPT !.nodeDataTimestamp = <<toString(now)>>]
  /\ UNCHANGED <<now, reactH, currentTimeD, parsedData, localsH,
                 upstream, envH, mountsLeft, netD, storedD, histH,
                 aggIn>>

\* the 3 second timer of the cached path fires
CacheDelayDone ==
  /\ pcD = "cacheDelay"
  /\ nodeData' = parsedData
  /\ totalNodes' = parsedData[1].total_nodes
  /\ ProcessNodeDataInto(parsedData[1])
  /\ isLoading' = FALSE
  /\ pcD' = "done"
  /\ outcomeD' = "cache"
  /\ UNCHANGED <<now, localStorage, reactH, currentTimeD, parsedData, localsH,
                 upstream, envH, mountsLeft, netD, storedD, histH,
                 aggIn>>

\* GET snapshots/latest/ resolves
LatestResponse ==
  /\ pcD = "awaitLatest"
  /\ \E data \in LatestSet :
       /\ nodeData' = <<data>>
       /\ totalNodes' = data.total_nodes
       /\ ProcessNodeDataInto(data)
       /\ localStorage' =
            [localStorage EXCEPT
               !.nodeData = <<StringifySnapshot(data)>>,
               !.nodeDataTimestamp = <<toString(currentTimeD)>>]
       /\ storedD' = <<[value |-> data, at |-> currentTimeD]>>
  /\ isLoading' = FALSE
  /\ pcD' = "done"
  /\ outcomeD' = "network"
  /\ UNCHANGED <<now, reactH, currentTimeD, parsedData, localsH, upstream, envH,
                 mountsLeft, netD, histH, aggIn>>

\* variant: no finally block
LatestFailure_NoFinally ==
  /\ pcD = "awaitLatest"
  /\ pcD' = "done"
  /\ outcomeD' = "failed"
  /\ UNCHANGED <<now, localStorage, reactD, reactH, currentTimeD, parsedData,
                 localsH, upstream, envH, mountsLeft, netD, storedD, histH,
                 aggIn>>

\* GET snapshots/latest/ rejects: catch, then finally
LatestFailure ==
  /\ pcD = "awaitLatest"
  /\ isLoading' = FALSE
  /\ pcD' = "done"
  /\ outcomeD' = "failed"
  /\ UNCHANGED <<now, localStorage, nodeData, versionCounts, knotsCount,
                 otherCount, totalNodes, reactH, currentTimeD, parsedData,
                 localsH, upstream, envH, mountsLeft, netD, storedD, histH,
                 aggIn>>

(**************************** fetchHistoricalData ***************************)
\* after the loop: sort in place, write the cache, publish, finally
Finish(hdNow, currentTime) ==
  LET sortedData == SortByTimestamp(hdNow)
  IN  /\ hd' = sortedData
      /\ localStorage' =
           [localStorage EXCEPT
              !.knotsgoup_snapshots = <<StringifyPoints(sortedData)>>,
              !.knotsgoup_snapshots_timestamp = <<toString(currentTime)>>]
      /\ historicalData' = sortedData
      /\ isLoadingHistorical' = FALSE
      /\ storedH' = <<[value |-> sortedData, at |-> currentTime]>>
      /\ pcH' = "done"
      /\ outcomeH' = "network"

\* the loop test, then either the next page request or the code after the loop
LoopTest(url, calls, hdNow, requests, currentTime) ==
  IF LoopContinues(url, calls)
  THEN /\ apiCallCount' = calls + 1
       /\ netH' = requests + 1
       /\ pcH' = "awaitPage"
       /\ hd' = hdNow
       /\ historicalData' = <<>>
       /\ isLoadingHistorical' = TRUE
       /\ outcomeH' = "none"
       /\ UNCHANGED <<localStorage, storedH>>
  ELSE /\ apiCallCount' = calls
       /\ netH' = requests
       /\ Finish(hdNow, currentTime)

\* the end of a loop body: nextUrl = response.data.next; if (nextUrl) delay
AfterPage(hdNow, next) ==
  /\ nextUrl' = next
  /\ IF next # <<>>
     THEN /\ pcH' = "pageDelay"
          /\ hd' = hdNow
          /\ UNCHANGED <<apiCallCount, netH, localStorage, storedH, reactH,
                         outcomeH>>
     ELSE LoopTest(next, apiCallCount, hdNow, netH, currentTimeH)

\* fetchHistoricalData up to its first await
FetchHistoricalDataBegin ==
  LET cachedData == localStorage.knotsgoup_snapshots
      cachedTimestamp == localStorage.knotsgoup_snapshots_timestamp
      currentTime == now
  IN  /\ currentTimeH' = currentTime
      /\ cacheAtStart' = HistCacheOf(localStorage)
      /\ lastTimestamp' = <<>>
      /\ response' = <<>>
      /\ queue' = <<>>
      /\ pushed' = <<>>
      /\ IF CacheFresh(cachedData, cachedTimestamp, currentTime,
                       CACHE_DURATION_fetchHistoricalData)
         THEN /\ historicalData' = ParsePoints(cachedData[1])
              /\ isLoadingHistorical' = FALSE
              /\ pcH' = "done"
              /\ outcomeH' = "cache"
              /\ netH' = 0
              /\ hd' = <<>> /\ nextUrl' = <<>> /\ apiCallCount' = 0
              /\ UNCHANGED <<localStorage, storedH>>
         ELSE /\ nextUrl' = <<1>>
              /\ LoopTest(<<1>>, 0, <<>>, 0, currentTime)

\* useEffect(() => { ...; fetchData(); fetchHistoricalData(); }, []) of a newly
\* constructed component: a page load
Mount ==
  /\ mountsLeft > 0
  /\ mountsLeft' = mountsLeft - 1
  /\ nodeData' = <<>>
  /\ versionCounts' = <<>>
  /\ knotsCount' = 0
  /\ otherCount' = 0
  /\ totalNodes' = 0
  /\ isLoading' = TRUE
  /\ FetchDataBegin
  /\ FetchHistoricalDataBegin
  /\ served' = 0
  /\ nullAt' = 0
  /\ listing' = <<>>
  /\ remaining' = upstream.summaries
  /\ UNCHANGED <<now, upstream, aggIn>>

\* results of one listing page
PageResults ==
  UNION {[1..n -> upstream.timestamps] : n \in 0..Min(MaxPerPage, remaining)}

Summaries(tss) ==
  [i \in 1..Len(tss) |-> [url |-> Len(listing) + i, timestamp |-> tss[i]]]

\* variant: the detail requests of a page are all issued at once
\* (Promise.all over filteredSnapshots)
PageResponse_FanOut ==
  /\ pcH = "awaitPage"
  /\ \E tss \in PageResults, hasNext \in BOOLEAN :
       /\ hasNext => served + 1 < upstream.maxPages
       /\ LET page == [results |-> Summaries(tss),
                       next |-> IF hasNext THEN <<served + 2>> ELSE <<>>]
              f == FilterSnapshots(page.results, lastTimestamp, <<>>)
          IN  /\ response' = <<page>>
              /\ lastTimestamp' = f.lastTimestamp
              /\ served' = served + 1
              /\ remaining' = remaining - Len(tss)
              /\ listing' = listing \o tss
              /\ nullAt' = IF hasNext THEN nullAt ELSE served + 1
              /\ queue' = f.filtered
              /\ IF f.filtered # <<>>
                 THEN /\ pcH' = "awaitDetail"
                      /\ netH' = netH + Len(f.filtered)
                      /\ UNCHANGED <<hd, nextUrl, apiCallCount, localStorage,
                                     storedH, reactH, outcomeH>>
                 ELSE AfterPage(hd, page.next)
  /\ UNCHANGED <<now, reactD, localsD, currentTimeH, upstream, mountsLeft, histD,
                 cacheAtStart, pushed, aggIn>>

\* a listing page resolves: filter, then the first detail request or the
\* end of the loop body
PageResponse ==
  /\ pcH = "awaitPage"
  /\ \E tss \in PageResults, hasNext \in BOOLEAN :
       /\ hasNext => served + 1 < upstream.maxPages
       /\ LET page == [results |-> Summaries(tss),
                       next |-> IF hasNext THEN <<served + 2>> ELSE <<>>]
              f == FilterSnapshots(page.results, lastTimestamp, <<>>)
          IN  /\ response' = <<page>>
              /\ lastTimestamp' = f.lastTimestamp
              /\ served' = served + 1
              /\ remaining' = remaining - Len(tss)
              /\ listing' = listing \o tss
              /\ nullAt' = IF hasNext THEN nullAt ELSE served + 1
              /\ queue' = f.filtered
              /\ IF f.filtered # <<>>
                 THEN /\ pcH' = "awaitDetail"
                      /\ netH' = netH + 1
                      /\ UNCHANGED <<hd, nextUrl, apiCallCount, localStorage,
                                     storedH, reactH, outcomeH>>
                 ELSE AfterPage(hd, page.next)
  /\ UNCHANGED <<now, reactD, localsD, currentTimeH, upstream, mountsLeft, histD,
                 cacheAtStart, pushed, aggIn>>

\* a snapshot detail resolves: count, push, then the next detail request or
\* the end of the loop body
DetailResponse ==
  /\ pcH = "awaitDetail"
  /\ \E nodes \in DetailSet :
       LET snapshot == Head(queue)
           point == [timestamp |-> snapshot.timestamp,
                     knotsCount |-> CountKnots(nodes)]
           hdNow == Append(hd, point)
       IN  /\ pushed' = Append(pushed, point)
           /\ queue' = Tail(queue)
           /\ IF Tail(queue) # <<>>
              THEN /\ pcH' = "awaitDetail"
                   /\ netH' = netH + 1
                   /\ hd' = hdNow
                   /\ UNCHANGED <<nextUrl, apiCallCount, localStorage, storedH,
                                  reactH, outcomeH>>
              ELSE AfterPage(hdNow, response[1].next)
  /\ UNCHANGED <<now, reactD, localsD, currentTimeH, lastTimestamp, response,
                 upstream, envH, mountsLeft, histD, cacheAtStart, aggIn>>

\* the 1 second timer between pages fires: back to the loop test
PageDelayDone ==
  /\ pcH = "pageDelay"
  /\ LoopTest(nextUrl, apiCallCount, hd, netH, currentTimeH)
  /\ UNCHANGED <<now, reactD, localsD, currentTimeH, nextUrl, lastTimestamp,
                 response, queue, upstream, envH, mountsLeft, histD,
                 cacheAtStart, pushed, aggIn>>

\* variant: the points gathered so far are published and cached on an error
HistCatch_Partial ==
  /\ isLoadingHistorical' = FALSE
  /\ pcH' = "done"
  /\ outcomeH' = "failed"
  /\ historicalData' = hd
  /\ localStorage' =
       [localStorage EXCEPT
          !.knotsgoup_snapshots = <<StringifyPoints(hd)>>,
          !.knotsgoup_snapshots_timestamp = <<toString(currentTimeH)>>]
  /\ UNCHANGED <<storedH, hd>>

\* catch (error) { console.error(...) } finally { setIsLoadingHistorical(false) }
HistCatch ==
  /\ isLoadingHistorical' = FALSE
  /\ pcH' = "done"
  /\ outcomeH' = "failed"
  /\ UNCHANGED <<localStorage, storedH, historicalData, hd>>

\* a listing page request rejects
PageFailure ==
  /\ pcH = "awaitPage"
  /\ HistCatch
  /\ UNCHANGED <<now, reactD, localsD, currentTimeH, nextUrl, lastTimestamp,
                 apiCallCount, response, queue, upstream, envH, mountsLeft,
                 histD, netH, cacheAtStart, pushed, aggIn>>

\* a snapshot detail request rejects
DetailFailure ==
  /\ pcH = "awaitDetail"
  /\ HistCatch
  /\ UNCHANGED <<now, reactD, localsD, currentTimeH, nextUrl, lastTimestamp,
                 apiCallCount, response, queue, upstream, envH, mountsLeft,
                 histD, netH, cacheAtStart, pushed, aggIn>>

\* time passes
Tick ==
  /\ \E t \in ClockSet : t > now /\ now' = t
  /\ UNCHANGED <<localStorage, reactD, reactH, localsD, localsH, upstream, envH,
                 mountsLeft, histD, histH, aggIn>>

(********************************* render **********************************)
\* the table rows rendered from the current state
sortedVersions == SortedVersionsOf(versionCounts)

\* what the JSX shows in place of the historical section
HistoricalSection ==
  IF isLoading THEN "hidden"
  ELSE IF isLoadingHistorical THEN "loader" ELSE "line"

\* what the JSX shows in place of the table and the pie chart
SnapshotSection == IF isLoading THEN "loader" ELSE "table"

(****************************** specifications *****************************)
Next ==
  \/ Mount
  \/ Tick
  \/ CacheDelayDone
  \/ LatestResponse
  \/ LatestFailure
  \/ PageResponse
  \/ PageFailure
  \/ DetailResponse
  \/ DetailFailure
  \/ PageDelayDone

Spec == Init /\ [][Next]_vars

\* one backfill run against a long listing; the snapshot request stays pending
InitBackfill ==
  /\ InitComponent
  /\ now = Epoch
  /\ localStorage = EmptyStorage
  /\ upstream = [maxPages |-> MaxChain, summaries |-> MaxSummaries,
                 timestamps |-> TimestampSet]
  /\ remaining = MaxSummaries
  /\ mountsLeft = 1
  /\ cacheAtStart = HistCacheOf(EmptyStorage)
  /\ agg = EmptyAgg

NextBackfill ==
  \/ Mount
  \/ PageResponse
  \/ PageFailure
  \/ DetailResponse
  \/ DetailFailure
  \/ PageDelayDone

SpecBackfill == InitBackfill /\ [][NextBackfill]_vars

(************************ the aggregator on its own *************************)
\* the regular user agents of a large snapshot, in the order they first occur
NumBase == SliceEnd + 2

BaseVersion(i) ==
  SatoshiPrefix \o toString(i) \o <<"/">>
    \o (IF i % 3 = 0 THEN KnotsToken \o <<":", "1", "/">> ELSE <<>>)

\* user agents that may occur before, after or again
ExtraVersions ==
  {IndexV, ProtoV, PlainKnotsV, SatoshiV, NestedV,
   BaseVersion(1), BaseVersion(2), BaseVersion(NumBase)}

\* the next regular user agent joins the listing
AggAddBase ==
  /\ ~agg.processed /\ ~agg.closed
  /\ agg.baseLen < NumBase
  /\ agg' = [agg EXCEPT !.nodes = Append(@, BaseVersion(agg.baseLen + 1)),
                        !.baseLen = @ + 1]
  /\ UNCHANGED <<now, localStorage, reactD, reactH, localsD, localsH, upstream,
                 envH, mountsLeft, histD, histH>>

\* another node record joins the listing, before or after the regular ones
AggAddExtra ==
  /\ ~agg.processed
  /\ agg.extras < MaxExtra
  /\ \E v \in ExtraVersions :
       agg' = [agg EXCEPT !.nodes = Append(@, v),
                          !.extras = @ + 1,
                          !.closed = (agg.baseLen > 0)]
  /\ UNCHANGED <<now, localStorage, reactD, reactH, localsD, localsH, upstream,
                 envH, mountsLeft, histD, histH>>

\* processNodeData(data) on the assembled listing
AggProcess ==
  /\ ~agg.processed
  /\ agg' = [agg EXCEPT !.processed = TRUE]
  /\ ProcessNodeDataInto([nodes |-> agg.nodes])
  /\ UNCHANGED <<now, localStorage, nodeData, totalNodes, isLoading, reactH,
                 localsD, localsH, upstream, envH, mountsLeft, histD, histH>>

NextAgg == AggAddBase \/ AggAddExtra \/ AggProcess

SpecAgg == Init /\ [][NextAgg]_vars

(********************************* claims **********************************)
SortedAscending(points) ==
  \A i \in 1..(Len(points) - 1) : points[i].timestamp <= points[i + 1].timestamp

Occurrences(seq, x) == Cardinality({i \in 1..Len(seq) : seq[i] = x})

SameElements(a, b) ==
  /\ Len(a) = Len(b)
  /\ \A i \in 1..Len(a) : Occurrences(a, a[i]) = Occurrences(b, a[i])

\* a cache entry written at stored.at is younger than duration at time t
FreshAt(stored, t, duration) == stored # <<>> /\ t - stored[1].at < duration

\* a step that loads the page
IsMount == mountsLeft' < mountsLeft

\* C1: a backfill run that no request fails performs exactly min(12, n)
\* listing-page fetches, n the first page served with next = null, and 12
\* when no page is; no run performs more than 12.
C1_PageFetches ==
  /\ served <= MAX_API_CALLS
  /\ outcomeH = "network" =>
       served = (IF nullAt # 0 THEN Min(MAX_API_CALLS, nullAt) ELSE MAX_API_CALLS)

\* C1: a run completed against a listing whose 12 pages all have a next page
C1_Witness == outcomeH = "network" /\ nullAt = 0 /\ served = MAX_API_CALLS

C4_FailureDiscards ==
  outcomeH = "failed" =>
    /\ HistCacheOf(localStorage) = cacheAtStart
    /\ historicalData = <<>>

\* C4: a run that had gathered a point fails, with an older entry in the cache
C4_Witness ==
  /\ outcomeH = "failed"
  /\ pushed # <<>>
  /\ cacheAtStart[1] # <<>>

C6_HistoricalRenderedWhenLoaded ==
  outcomeH \in {"cache", "network"} => HistoricalSection = "line"

StrictlyNewestFirst(tss) ==
  \A i \in 1..(Len(tss) - 1) : tss[i] > tss[i + 1]

\* C7: when the summaries served are in strictly decreasing order of timestamp,
\* consecutive points of the published sequence are at least 604800 s apart.
C7_Spacing ==
  (outcomeH = "network" /\ StrictlyNewestFirst(listing)) =>
    \A i \in 1..(Len(historicalData) - 1) :
      historicalData[i + 1].timestamp - historicalData[i].timestamp >= 604800

\* C7: an ordered listing of which some summaries were kept and some dropped
C7_Witness ==
  /\ outcomeH = "network"
  /\ StrictlyNewestFirst(listing)
  /\ Len(historicalData) >= 2
  /\ Len(historicalData) < Len(listing)

\* C8: the sequence a successful backfill stores and publishes is sorted by
\* timestamp and holds exactly the points pushed, one per kept summary.
C8_SortedPermutation ==
  outcomeH = "network" =>
    /\ SortedAscending(historicalData)
    /\ SameElements(historicalData, pushed)
    /\ storedH = <<[value |-> historicalData, at |-> currentTimeH]>>
    /\ ParsePoints(localStorage.knotsgoup_snapshots[1]) = historicalData
    /\ [i \in 1..Len(pushed) |-> pushed[i].timestamp]
         = LET all == [i \in 1..Len(listing) |-> [url |-> i, timestamp |-> listing[i]]]
               kept == FilterSnapshots(all, <<>>, <<>>).filtered
           IN  [i \in 1..Len(kept) |-> kept[i].timestamp]

\* C8: a successful run whose points were pushed out of order
C8_Witness ==
  /\ outcomeH = "network"
  /\ Len(pushed) >= 2
  /\ pushed[1].timestamp > pushed[2].timestamp

RECURSIVE SumCounts(_)
SumCounts(counts) ==
  IF counts = <<>> THEN 0 ELSE Head(counts).value + SumCounts(Tail(counts))

AllNumeric(counts) == \A i \in 1..Len(counts) : counts[i].value # NotANumber

\* C9: the per-version counts are numbers that add up to the number of node
\* records, which is knotsCount + otherCount, knotsCount being the number of
\* records whose version contains 'Knots'.
C9_CountsAddUp ==
  agg.processed =>
    /\ AllNumeric(versionCounts)
    /\ SumCounts(versionCounts) = Len(agg.nodes)
    /\ Len(agg.nodes) = knotsCount + otherCount
    /\ knotsCount = Cardinality({i \in 1..Len(agg.nodes) :
                                   Includes(agg.nodes[i], KnotsToken)})

\* the versions of a listing in the order they first occur
RECURSIVE FirstSeen(_, _)
FirstSeen(nodes, seen) ==
  IF nodes = <<>> THEN seen
  ELSE IF \E i \in 1..Len(seen) : seen[i] = Head(nodes)
       THEN FirstSeen(Tail(nodes), seen)
       ELSE FirstSeen(Tail(nodes), Append(seen, Head(nodes)))

PositionIn(seq, x) == CHOOSE i \in 1..Len(seq) : seq[i] = x

\* C10: the table has min(21, k) rows, in order of non-increasing count, rows
\* of equal count in the order their versions first occur in the snapshot, and
\* no omitted version has a larger count than a shown one.
C10_TableRows ==
  (agg.processed /\ AllNumeric(versionCounts)) =>
    LET rows == TopEntries(versionCounts)
        seen == FirstSeen(agg.nodes, <<>>)
    IN  /\ Len(sortedVersions) = Min(SliceEnd, Len(seen))
        /\ Len(rows) = Len(sortedVersions)
        /\ \A i \in 1..Len(rows) : sortedVersions[i][2] = rows[i].value
        /\ \A i, j \in 1..Len(rows) :
             i < j =>
               /\ rows[i].value >= rows[j].value
               /\ rows[i].value = rows[j].value =>
                    PositionIn(seen, rows[i].key) < PositionIn(seen, rows[j].key)
        /\ \A e \in 1..Len(versionCounts) :
             (\A i \in 1..Len(rows) : rows[i].key # versionCounts[e].key) =>
               \A i \in 1..Len(rows) : versionCounts[e].value <= rows[i].value

\* the display name the normalisation is said to give: '/Satoshi:' removed when
\* the string starts with it, then one trailing slash removed
PrefixStripped(version) ==
  IF Len(version) >= Len(SatoshiPrefix)
       /\ SubSeq(version, 1, Len(SatoshiPrefix)) = SatoshiPrefix
  THEN StripTrailingSlash(SubSeq(version, Len(SatoshiPrefix) + 1, Len(version)))
  ELSE StripTrailingSlash(version)

\* C11: every row shows its version with only a leading '/Satoshi:' and one
\* trailing slash removed; "/Satoshi:24.0.1/" is shown as "24.0.1" and
\* "/Knots:20.1/" as "Knots:20.1".
C11_DisplayName ==
  agg.processed =>
    LET rows == TopEntries(versionCounts)
    IN  \A i \in 1..Len(rows) :
          /\ sortedVersions[i][1] = PrefixStripped(rows[i].key)
          /\ rows[i].key = SatoshiV =>
               sortedVersions[i][1] = <<"2", "4", ".", "0", ".", "1">>
          /\ rows[i].key = PlainKnotsV =>
               sortedVersions[i][1] = KnotsToken \o <<":", "2", "0", ".", "1">>

\* backfill requests of the current run that have been answered or rejected
Completed == served + Len(pushed) + (IF outcomeH = "failed" THEN 1 ELSE 0)

\* backfill requests of the current run that are issued and not yet completed
InFlight == netH - Completed

\* the summaries a greedy pass over everything served so far keeps
KeptOf(tss) ==
  FilterSnapshots([i \in 1..Len(tss) |-> [url |-> i, timestamp |-> tss[i]]],
                  <<>>, <<>>).filtered

\* C12: at most one backfill request is in flight, and while a listing page is
\* being fetched every detail of the summaries kept from the earlier pages has
\* completed.
C12_Sequential ==
  /\ InFlight \in {0, 1}
  /\ (InFlight = 1) <=> (pcH \in {"awaitPage", "awaitDetail"})
  /\ pcH = "awaitPage" =>
       /\ queue = <<>>
       /\ Len(pushed) = Len(KeptOf(listing))

\* C12: a later page is being fetched after two details of one page completed
C12_Witness ==
  /\ pcH = "awaitPage"
  /\ served = 1
  /\ Len(pushed) = 2

\* a step of the running backfill that issues a listing-page request
IssuesPage == ~IsMount /\ apiCallCount' = apiCallCount + 1

\* C13: a page fetch after the first is issued by the step that ends a delay,
\* the step that ends a delay issues a page fetch, and no delay starts while
\* details of the page are still to be fetched.
C13_DelayBetweenPages ==
  [][/\ (IssuesPage /\ apiCallCount >= 1) => pcH = "pageDelay"
     /\ (~IsMount /\ pcH = "pageDelay" /\ pcH' # "pageDelay") =>
          (pcH' = "awaitPage" /\ apiCallCount' = apiCallCount + 1)
     /\ (~IsMount /\ pcH' = "pageDelay" /\ pcH # "pageDelay") => queue' = <<>>
    ]_vars

\* one greedy pass as the filter is described: the first summary is kept, a
\* later one if and only if it is at least 604800 s from the last kept one
RECURSIVE GreedyPass(_, _, _)
GreedyPass(tss, last, kept) ==
  IF tss = <<>> THEN kept
  ELSE IF last = <<>> \/ Abs(Head(tss) - last[1]) >= 604800
       THEN GreedyPass(Tail(tss), <<Head(tss)>>, Append(kept, Head(tss)))
       ELSE GreedyPass(Tail(tss), last, kept)

\* timestamps of the summaries the run has kept: fetched or waiting in the page
KeptTimestamps ==
  [i \in 1..Len(pushed) |-> pushed[i].timestamp]
    \o [i \in 1..Len(queue) |-> queue[i].timestamp]

\* C14: the summaries kept page by page are those one greedy pass over all the
\* summaries served keeps, whatever the timestamps, 0 included.
C14_GreedyPass == KeptTimestamps = GreedyPass(listing, <<>>, <<>>)

\* C15: the step that completes a network cycle stores, with the value, the
\* time of that step, so that the entry is a hit until a full TTL after it.
C15_TimestampAtWrite ==
  [][/\ (outcomeD' = "network" /\ outcomeD # "network") =>
          /\ parseInt(localStorage'.nodeDataTimestamp[1]) = now'
          /\ CacheFresh(localStorage'.nodeData, localStorage'.nodeDataTimestamp,
                        now' + CACHE_DURATION_fetchData - 1,
                        CACHE_DURATION_fetchData)
     /\ (outcomeH' = "network" /\ outcomeH # "network") =>
          /\ parseInt(localStorage'.knotsgoup_snapshots_timestamp[1]) = now'
          /\ CacheFresh(localStorage'.knotsgoup_snapshots,
                        localStorage'.knotsgoup_snapshots_timestamp,
                        now' + CACHE_DURATION_fetchHistoricalData - 1,
                        CACHE_DURATION_fetchHistoricalData)
    ]_vars

\* C16: the steps of a run that uses a fresh cache entry (the page load that
\* finds it and, for the snapshot, the end of the 3 second timer) leave the
\* four cache keys as they are, and after a historical cache hit the entry is
\* the one the run found.
C16_CacheHitReadOnly ==
  [][/\ (IsMount /\ (outcomeH' = "cache" \/ pcD' = "cacheDelay")) =>
          localStorage' = localStorage
     /\ (pcD = "cacheDelay" /\ pcD' = "done") => localStorage' = localStorage
     /\ outcomeH' = "cache" => HistCacheOf(localStorage') = cacheAtStart'
    ]_vars

\* C16: both pipelines served from entries that were written earlier than read
C16_Witness ==
  /\ outcomeD = "cache" /\ outcomeH = "cache"
  /\ currentTimeD > storedD[1].at
  /\ currentTimeH > storedH[1].at
  /\ localStorage.nodeDataTimestamp = <<toString(storedD[1].at)>>
  /\ localStorage.knotsgoup_snapshots_timestamp = <<toString(storedH[1].at)>>

=============================================================================
